---- MODULE Spec2Model ----
(***************************************************************************)
(* Complaint lifecycle of the Nagar Seva grievance system.                 *)
(*                                                                         *)
(* The repository holds two generations of the server over one SQLite      *)
(* table `grievances`: the TypeScript server (server.ts with db.js and     *)
(* services/aiService.ts) and the earlier CommonJS server (server.js with  *)
(* its db.js).  A row of the model carries the workflow columns of both    *)
(* generations; every handler writes exactly the columns its UPDATE or     *)
(* INSERT statement names and leaves the others alone.                     *)
(*                                                                         *)
(* A handler runs to completion and leaves its HTTP response in `last`     *)
(* together with the table as it was when the request arrived (`before`);  *)
(* Deliver hands the response to the client, after which the next request  *)
(* is served.                                                              *)
(***************************************************************************)
EXTENDS Integers, Sequences, FiniteSets, TLC

VARIABLES users, categories, complaints, schema, db, now, last, before, everResolved,
          sessions, user_sessions, legacySessions, issued, loggedOut

\* The session stores: `sessions` and `user_sessions` of the TypeScript server,
\* `legacySessions` (the Map `sessions` of the CommonJS server), and the
\* history of the tokens handed out and of the tokens logout was asked for.
sessionVars == <<sessions, user_sessions, legacySessions>>
tokenHistory == <<issued, loggedOut>>

vars == <<users, categories, complaints, schema, db, now, last, before, everResolved,
          sessions, user_sessions, legacySessions, issued, loggedOut>>

---------------------------------------------------------------------------
(* Bounds of the model *)

MaxComplaints == 1
MaxWideComplaints == 2
MaxUsers == 6
MaxTime == 2
MaxPickUsers == 3
MaxPickRows == 2

---------------------------------------------------------------------------
(* Values *)

\* SQL NULL of an INTEGER / DATETIME column (ids and timestamps start at 1).
Null == 0
\* SQL NULL of a TEXT column.
NullText == "NULL"

ALLOWED_STATUS == {"submitted", "assigned", "in_progress", "resolved", "rejected", "reopened"}

\* z.enum(["accepted", "in_progress", "closed"]) of the set-status request.
SetStatusEnum == {"accepted", "in_progress", "closed"}

\* Mutant: closed is mapped to in_progress.
statusMap_ClosedInProgress(v) ==
  CASE v = "accepted" -> "assigned"
    [] v = "in_progress" -> "in_progress"
    [] v = "closed" -> "in_progress"

\* statusMap of the set-status handler.
statusMap(v) ==
  CASE v = "accepted" -> "assigned"
    [] v = "in_progress" -> "in_progress"
    [] v = "closed" -> "resolved"

\* An uploaded image, identified by what fs.statSync / sha256File read of it.
NoFile == [hash |-> 0, size |-> 0]
FileA == [hash |-> 1, size |-> 100]
FileB == [hash |-> 2, size |-> 90]
FileC == [hash |-> 3, size |-> 80]

\* Users inserted by seed(), in insertion order (AUTOINCREMENT ids 1..5).
SeedUsers ==
  <<[email |-> "admin@nagarseva.gov", role |-> "authority"],
    [email |-> "citizen@nagarseva.com", role |-> "citizen"],
    [email |-> "contractor1@nagarseva.gov", role |-> "contractor"],
    [email |-> "contractor2@nagarseva.gov", role |-> "contractor"],
    [email |-> "contractor3@nagarseva.gov", role |-> "contractor"]>>

\* Categories inserted by seed(), in insertion order.
CategoryNames ==
  <<"Roads & Potholes", "Waste Management", "Street Lights", "Water Supply",
    "Drainage", "Public Safety">>

\* The tables of the data file as the CREATE TABLE statements of initDb
\* define them: users.role admits 'contractor', grievances has the workflow
\* columns with the current CHECK constraints, grievance_categories.name is
\* UNIQUE; no shadow table (users_new, grievances_new) is left, and the
\* connection has PRAGMA foreign_keys = ON.
CurrentSchema ==
  [users |-> "current", grievances |-> "current", categories |-> "unique",
   shadow |-> {}, foreign_keys |-> TRUE]

Contractors == {u \in DOMAIN users : users[u].role = "contractor"}

Ids == DOMAIN complaints

---------------------------------------------------------------------------
(* Pure functions *)

\* Mutant: the join forgets the complaint_status condition.
OpenLoad_CountsAll(rows, u) ==
  Cardinality({i \in DOMAIN rows : rows[i].contractor_id = u})

\* COUNT(g.id) of the LEFT JOIN in pickLeastLoadedContractorId.
OpenLoad(rows, u) ==
  Cardinality({i \in DOMAIN rows :
                 /\ rows[i].contractor_id = u
                 /\ rows[i].complaint_status \in {"accepted", "in_progress"}})

\* Mutant: ORDER BY u.id ASC alone.
pickLeastLoadedContractorId_LowestId(us, rows) ==
  LET cs == {u \in DOMAIN us : us[u].role = "contractor"}
  IN IF cs = {} THEN Null
     ELSE CHOOSE u \in cs : \A v \in cs : u <= v

\* ORDER BY COUNT(g.id) ASC, u.id ASC LIMIT 1; row?.id ?? null
pickLeastLoadedContractorId(us, rows) ==
  LET cs == {u \in DOMAIN us : us[u].role = "contractor"}
  IN IF cs = {} THEN Null
     ELSE CHOOSE u \in cs :
            \A v \in cs :
              \/ OpenLoad(rows, u) < OpenLoad(rows, v)
              \/ (OpenLoad(rows, u) = OpenLoad(rows, v) /\ u <= v)

Max2(a, b) == IF a >= b THEN a ELSE b
Min2(a, b) == IF a <= b THEN a ELSE b

verifyResolution_RatioAboveFifth(orig, proof) ==
  IF proof = NoFile THEN [resolved |-> FALSE, confidence |-> "low"]
  ELSE IF orig = NoFile THEN [resolved |-> TRUE, confidence |-> "medium"]
  ELSE IF orig.hash = proof.hash THEN [resolved |-> FALSE, confidence |-> "low"]
  ELSE IF (Max2(orig.size, proof.size) - Min2(orig.size, proof.size)) * 5
            > Max2(orig.size, proof.size)
    THEN [resolved |-> TRUE, confidence |-> "high"]
    ELSE [resolved |-> TRUE, confidence |-> "medium"]

\* verifyResolutionFallback(originalImagePath, proofImagePath); each argument
\* is the file at the path, NoFile when the path is empty or no file is there.
verifyResolution(orig, proof) ==
  IF proof = NoFile THEN [resolved |-> FALSE, confidence |-> "low"]
  ELSE IF orig = NoFile THEN [resolved |-> TRUE, confidence |-> "medium"]
  ELSE IF orig.hash = proof.hash THEN [resolved |-> FALSE, confidence |-> "low"]
  ELSE LET bigger == Max2(orig.size, proof.size)
           smaller == Min2(orig.size, proof.size)
       IN \* sizeChangeRatio >= 0.2, with sizeChangeRatio = 0 when bigger = 0
          IF bigger # 0 /\ (bigger - smaller) * 5 >= bigger
             THEN [resolved |-> TRUE, confidence |-> "high"]
             ELSE [resolved |-> TRUE, confidence |-> "medium"]

\* getFirstUploadedImagePath: null when images_json is NULL, else the first path.
getFirstUploadedImagePath(images_json) == images_json

\* The file found at the first path of the row's images_json.
FileAt(row) == IF row.images_on_disk THEN row.images_json ELSE NoFile

NoVerification == [resolved |-> FALSE, confidence |-> "none"]

---------------------------------------------------------------------------
(* Responses *)

\* new Map(): no token is known.
NoSessions == [t \in {} |-> Null]

NoReq == [op |-> "none", caller |-> 0, id |-> 0, status |-> "", file |-> NoFile,
          rating |-> 0, feedback |-> "", code |-> 0, error |-> "",
          verification |-> NoVerification, rows |-> {}, ticket |-> 0, token |-> 0,
          threw |-> "", text |-> <<>>]

Req(op, u, id) == [NoReq EXCEPT !.op = op, !.caller = u, !.id = id]

\* The handler answered `r` with res.status(code).json({ error }) without
\* touching the database.
Reject(r, code, error) ==
  /\ last' = [r EXCEPT !.code = code, !.error = error]
  /\ before' = complaints
  /\ UNCHANGED <<users, categories, complaints, schema, db, now, everResolved, sessionVars, tokenHistory>>

\* The handler answered `r` after replacing the table by `rows`.
Commit(r, code, rows) ==
  /\ last' = [r EXCEPT !.code = code]
  /\ before' = complaints
  /\ complaints' = rows
  /\ everResolved' = everResolved \cup {i \in DOMAIN rows : rows[i].status = "resolved"}
  /\ UNCHANGED <<users, categories, schema, db, now, sessionVars, tokenHistory>>

---------------------------------------------------------------------------
(* Initial state: the database right after initDb() and seed() on a fresh  *)
(* data file.                                                              *)

Init ==
  /\ users = SeedUsers
  /\ categories = CategoryNames
  /\ complaints = <<>>
  /\ schema = CurrentSchema
  /\ db = TRUE
  /\ now = 1
  /\ last = NoReq
  /\ before = <<>>
  /\ everResolved = {}
  /\ sessions = NoSessions
  /\ user_sessions = NoSessions
  /\ legacySessions = NoSessions
  /\ issued = NoSessions
  /\ loggedOut = {}

\* A row as the INSERT statements and the column defaults produce it.
\* images_on_disk is not a column: it says whether the file that the first
\* path of images_json names is in the uploads directory, where multer put it.
NewRow(ticket, citizen, cstatus, contractor, images, priority, located) ==
  [ticket_number |-> ticket,
   citizen_id |-> citizen,
   located |-> located,
   priority |-> priority,
   status |-> "submitted",
   complaint_status |-> cstatus,
   contractor_id |-> contractor,
   images_json |-> images,
   images_on_disk |-> TRUE,
   resolution_image_url |-> NoFile,
   citizen_rating |-> Null,
   citizen_feedback |-> NullText,
   created_at |-> now,
   updated_at |-> now,
   resolved_at |-> Null]

\* Mutant: ticket_number without its UNIQUE constraint.
TicketTaken_Never(ticket) == FALSE

\* UNIQUE(ticket_number): the ticket is already stored.
TicketTaken(ticket) == \E i \in Ids : complaints[i].ticket_number = ticket

---------------------------------------------------------------------------
(* Handlers of the TypeScript server *)

\* POST /api/auth/register: a new user always gets role citizen.
Register(email) ==
  /\ last = NoReq
  /\ IF \E u \in DOMAIN users : users[u].email = email
       THEN Reject(Req("register", 0, 0), 400, "User already exists")
       ELSE /\ users' = Append(users, [email |-> email, role |-> "citizen"])
            /\ last' = [Req("register", 0, 0) EXCEPT !.code = 200]
            /\ before' = complaints
            /\ UNCHANGED <<categories, complaints, schema, db, now, everResolved, sessionVars, tokenHistory>>

\* POST /api/complaints.  valid: the zod schema accepts the form; spam:
\* analyzeComplaint(...).is_spam; photo: the first uploaded photo or NoFile;
\* ticket: the generated ticket number; priority: aiResult.priority; located:
\* the form carries latitude and longitude.
CreateComplaint(u, valid, spam, photo, ticket, priority, located) ==
  /\ last = NoReq
  /\ LET r == [Req("create", u, Len(complaints) + 1) EXCEPT !.file = photo, !.ticket = ticket]
     IN IF users[u].role # "citizen" THEN Reject(r, 403, "Forbidden")
        ELSE IF ~valid THEN Reject(r, 400, "Invalid form data")
        ELSE IF spam THEN Reject(r, 422, "Complaint Rejected")
        ELSE IF categories = <<>> THEN Reject(r, 500, "No grievance categories configured")
        ELSE IF TicketTaken(ticket)
               \* UNIQUE(ticket_number) fails the INSERT
               THEN Reject(r, 500, "Failed to create complaint")
        ELSE Commit(r, 201,
                    Append(complaints,
                           NewRow(ticket, u, "accepted",
                                  pickLeastLoadedContractorId(users, complaints),
                                  photo, priority, located)))

\* Mutant: the handlers do not look at who the complaint is assigned to.
AssignedToOther_Never(row, u) == FALSE

\* existing.contractor_id && existing.contractor_id !== req.user.id
AssignedToOther(row, u) ==
  /\ users[u].role = "contractor"
  /\ row.contractor_id # Null
  /\ row.contractor_id # u

\* Mutant: the caller's id is stored whatever the caller's role.
contractorIdToSet_AlwaysCaller(row, u) == u

\* Mutant: a request of the authority clears the contractor.
contractorIdToSet_OnlyCaller(row, u) ==
  IF users[u].role = "contractor" THEN u ELSE Null

\* req.user.role === "contractor" ? req.user.id : existing.contractor_id
contractorIdToSet(row, u) ==
  IF users[u].role = "contractor" THEN u ELSE row.contractor_id

\* The UPDATE of the set-status handler.
SetStatusRow(row, u, v) ==
  [row EXCEPT !.complaint_status = v,
              !.status = statusMap(v),
              !.contractor_id = contractorIdToSet(row, u),
              !.updated_at = now]

\* PATCH /api/authority/grievances/:id/status
SetStatus(u, id, v) ==
  /\ last = NoReq
  /\ LET r == [Req("setStatus", u, id) EXCEPT !.status = v]
     IN IF users[u].role \notin {"authority", "contractor"} THEN Reject(r, 403, "Forbidden")
        ELSE IF v \notin SetStatusEnum THEN Reject(r, 400, "Invalid status")
        ELSE IF id \notin Ids THEN Reject(r, 404, "Complaint not found")
        ELSE IF AssignedToOther(complaints[id], u)
               THEN Reject(r, 403, "You can update only your assigned complaints")
        ELSE Commit(r, 200,
                    [complaints EXCEPT ![id] = SetStatusRow(complaints[id], u, v)])

\* Mutant: only a closed complaint is refused.
Closable_OnlyClosedRefused(cstatus) == cstatus # "closed"

\* existing.complaint_status is "accepted" or "in_progress"
Closable(cstatus) == cstatus \in {"accepted", "in_progress"}

\* Mutant: the closure is stored only when the verification says resolved
\* (the mapping of getSQLiteSafeWorkflowUpdate).
ClosedRow_FollowsVerification(row, u, file, verification) ==
  [row EXCEPT !.complaint_status = IF verification.resolved THEN "closed" ELSE "in_progress",
              !.status = IF verification.resolved THEN "resolved" ELSE "in_progress",
              !.contractor_id = contractorIdToSet(row, u),
              !.resolution_image_url = file,
              !.updated_at = now]

\* The UPDATE of the close handler; nextStatus and nextComplaintStatus do
\* not look at the verification.
ClosedRow(row, u, file, verification) ==
  [row EXCEPT !.complaint_status = "closed",
              !.status = "resolved",
              !.contractor_id = contractorIdToSet(row, u),
              !.resolution_image_url = file,
              !.updated_at = now]

\* POST /api/contractor/grievances/:id/close.  file: req.file, NoFile when absent.
CloseWithProof(u, id, file) ==
  /\ last = NoReq
  /\ LET r == [Req("close", u, id) EXCEPT !.file = file]
     IN IF users[u].role \notin {"authority", "contractor"} THEN Reject(r, 403, "Forbidden")
        ELSE IF file = NoFile THEN Reject(r, 400, "Resolution image is required")
        ELSE IF id \notin Ids THEN Reject(r, 404, "Complaint not found")
        ELSE IF ~Closable(complaints[id].complaint_status)
               THEN Reject(r, 400, "Only accepted or in-progress complaints can be closed")
        ELSE IF AssignedToOther(complaints[id], u)
               THEN Reject(r, 403, "You can close only your assigned complaints")
        ELSE LET originalImagePath == getFirstUploadedImagePath(complaints[id].images_json)
                 verification ==
                   IF originalImagePath # NoFile
                     THEN verifyResolution(FileAt(complaints[id]), file)
                     ELSE [resolved |-> FALSE, confidence |-> "low"]
             IN Commit([r EXCEPT !.verification = verification], 200,
                       [complaints EXCEPT ![id] =
                          ClosedRow(complaints[id], u, file, verification)])

\* Mutant: the SELECT of distribute-random has no WHERE clause.
Distributable_All == Ids

\* The rows SELECTed by distribute-random.
Distributable == {i \in Ids : /\ complaints[i].complaint_status # "closed"
                              /\ complaints[i].status # "resolved"}

\* Mutant: nextStatus is "assigned" whatever the row's status was.
DistributedRow_AlwaysAssigned(row, contractor) ==
  [row EXCEPT !.contractor_id = contractor,
              !.complaint_status =
                 IF row.complaint_status = "in_progress" \/ row.complaint_status = "accepted"
                   THEN row.complaint_status
                   ELSE "accepted",
              !.status = "assigned",
              !.updated_at = now]

\* One run of the loop body of distribute-random on a selected row.
DistributedRow(row, contractor) ==
  [row EXCEPT !.contractor_id = contractor,
              !.complaint_status =
                 IF row.complaint_status = "in_progress" \/ row.complaint_status = "accepted"
                   THEN row.complaint_status
                   ELSE "accepted",
              !.status = IF row.status = "in_progress" THEN "in_progress" ELSE "assigned",
              !.updated_at = now]

\* POST /api/authority/grievances/distribute-random.  pick[i] is the
\* contractor Math.random() draws for complaint i.
DistributeRandom(u, pick) ==
  /\ last = NoReq
  /\ LET r == Req("distribute", u, 0)
     IN IF users[u].role # "authority" THEN Reject(r, 403, "Forbidden")
        ELSE IF Contractors = {} THEN Reject(r, 400, "No contractors available")
        ELSE Commit(r, 200,
               [i \in Ids |->
                  IF i \in Distributable
                    THEN DistributedRow(complaints[i], pick[i])
                    ELSE complaints[i]])

---------------------------------------------------------------------------
(* Handlers of the CommonJS server *)

\* POST /api/grievances.  The INSERT names neither status nor
\* complaint_status nor a contractor: the column defaults apply
\* ('submitted', 'pending', NULL).  The priority computePriority returns and
\* the coordinates of the form are not modelled for this handler: the row is
\* stored with the default priority and without coordinates.
SubmitGrievance(u, valid, ticket) ==
  /\ last = NoReq
  /\ LET r == [Req("submit", u, Len(complaints) + 1) EXCEPT !.ticket = ticket]
     IN IF users[u].role # "citizen" THEN Reject(r, 403, "Forbidden")
        ELSE IF ~valid THEN Reject(r, 400, "Description is required")
        ELSE IF TicketTaken(ticket)
               THEN Reject(r, 500, "UNIQUE constraint failed")
        ELSE Commit(r, 201,
                    Append(complaints,
                           NewRow(ticket, u, "pending", Null, NoFile, "medium", FALSE)))

\* !grievance || grievance.citizen_id !== req.user.id
NotOwn(id, u) == id \notin Ids \/ complaints[id].citizen_id # u

\* Mutant: a complaint that is reopened may be rated as well.
CanRate_AlsoReopened(row) == row.status \in {"resolved", "reopened"}

\* grievance.status === 'resolved' of the feedback handler
CanRate(row) == row.status = "resolved"

\* POST /api/grievances/:id/feedback.  rating || null, feedback || null.
Feedback(u, id, rating, feedback) ==
  /\ last = NoReq
  /\ LET r == [Req("feedback", u, id) EXCEPT !.rating = rating, !.feedback = feedback]
     IN IF users[u].role # "citizen" THEN Reject(r, 403, "Forbidden")
        ELSE IF NotOwn(id, u) THEN Reject(r, 404, "Not found")
        ELSE IF ~CanRate(complaints[id])
               THEN Reject(r, 400, "Can only rate resolved grievances")
        ELSE Commit(r, 200,
                    [complaints EXCEPT ![id] =
                       [@ EXCEPT !.citizen_rating = IF rating = 0 THEN Null ELSE rating,
                                 !.citizen_feedback =
                                    IF feedback = "" THEN NullText ELSE feedback]])

\* Mutant: reopening also resets complaint_status.
ReopenedRow_ResetsComplaintStatus(row) ==
  [row EXCEPT !.status = "reopened", !.complaint_status = "pending", !.updated_at = now]

\* The UPDATE of the reopen handler.
ReopenedRow(row) == [row EXCEPT !.status = "reopened", !.updated_at = now]

\* POST /api/grievances/:id/reopen
Reopen(u, id) ==
  /\ last = NoReq
  /\ LET r == Req("reopen", u, id)
     IN IF users[u].role # "citizen" THEN Reject(r, 403, "Forbidden")
        ELSE IF NotOwn(id, u) THEN Reject(r, 404, "Not found")
        ELSE IF complaints[id].status # "resolved"
               THEN Reject(r, 400, "Can only reopen resolved grievances")
        ELSE Commit(r, 200, [complaints EXCEPT ![id] = ReopenedRow(complaints[id])])

\* PATCH /api/authority/grievances/:id.  status: the body's status ("" when
\* absent); other: the body names department, resolution_notes or priority.
AuthorityUpdate(u, id, status, other) ==
  /\ last = NoReq
  /\ LET r == [Req("update", u, id) EXCEPT !.status = status]
     IN IF users[u].role # "authority" THEN Reject(r, 403, "Forbidden")
        ELSE IF status = "" /\ ~other THEN Reject(r, 400, "No updates provided")
        ELSE IF id \notin Ids THEN Commit(r, 200, complaints)  \* the UPDATE matches no row
        ELSE IF status # "" /\ status \notin ALLOWED_STATUS
               \* CHECK(status IN (...)) fails the UPDATE and the handler throws
               THEN Reject(r, 500, "CHECK constraint failed")
        ELSE Commit(r, 200,
                    [complaints EXCEPT ![id] =
                       [@ EXCEPT !.status = IF status # "" THEN status ELSE @,
                                 !.resolved_at = IF status = "resolved" THEN now ELSE @,
                                 !.updated_at = now]])

---------------------------------------------------------------------------
(* Reading handlers.  `rows` of the response is the set of ids of the      *)
(* complaints whose data the response carries.                             *)

\* The handler answered `r` with res.json(...) of the complaints `rows`.
Respond(r, rows) ==
  /\ last' = [r EXCEPT !.code = 200, !.rows = rows]
  /\ before' = complaints
  /\ UNCHANGED <<users, categories, complaints, schema, db, now, everResolved, sessionVars, tokenHistory>>

\* Mutant: the SELECT has no WHERE g.citizen_id = ? clause.
OwnRows_All(u) == Ids

\* WHERE g.citizen_id = ?
OwnRows(u) == {i \in Ids : complaints[i].citizen_id = u}

\* WHERE g.latitude IS NOT NULL AND g.longitude IS NOT NULL
Located == {i \in Ids : complaints[i].located}

\* GET /api/grievances
ListGrievances(u) ==
  /\ last = NoReq
  /\ LET r == Req("list", u, 0)
     IN IF users[u].role = "authority" THEN Respond(r, Ids)
        ELSE Respond(r, OwnRows(u))

\* GET /api/grievances/my (the same in both servers)
MyGrievances(u) ==
  /\ last = NoReq
  /\ LET r == Req("my", u, 0)
     IN IF users[u].role # "citizen" THEN Reject(r, 403, "Forbidden")
        ELSE Respond(r, OwnRows(u))

\* GET /api/map/markers
MapMarkers(u) ==
  /\ last = NoReq
  /\ LET r == Req("markers", u, 0)
     IN IF users[u].role = "authority" \/ users[u].role = "contractor"
          THEN Respond(r, Located)
          ELSE Respond(r, OwnRows(u) \cap Located)

\* GET /api/grievances/track/:ticket
TrackByTicket(u, ticket) ==
  /\ last = NoReq
  /\ LET r == [Req("track", u, 0) EXCEPT !.ticket = ticket]
     IN IF ~TicketTaken(ticket) THEN Reject(r, 404, "Complaint not found")
        ELSE LET i == CHOOSE j \in Ids : complaints[j].ticket_number = ticket
             IN IF users[u].role = "citizen" /\ complaints[i].citizen_id # u
                  THEN Reject([r EXCEPT !.id = i], 403, "You can track only your complaints")
                ELSE IF AssignedToOther(complaints[i], u)
                  THEN Reject([r EXCEPT !.id = i], 403,
                              "You can track only your assigned complaints")
                ELSE Respond([r EXCEPT !.id = i], {i})

\* GET /api/authority/grievances/:id
GetGrievance(u, id) ==
  /\ last = NoReq
  /\ LET r == Req("get", u, id)
     IN IF users[u].role \notin {"authority", "contractor"} THEN Reject(r, 403, "Forbidden")
        ELSE IF id \notin Ids THEN Reject(r, 404, "Complaint not found")
        ELSE IF AssignedToOther(complaints[id], u)
               THEN Reject(r, 403, "You can view only your assigned complaints")
        ELSE Respond(r, {id})

\* GET /api/contractor/grievances
ContractorGrievances(u) ==
  /\ last = NoReq
  /\ LET r == Req("contractorList", u, 0)
     IN IF users[u].role \notin {"authority", "contractor"} THEN Reject(r, 403, "Forbidden")
        ELSE Respond(r, {i \in Ids :
                           /\ complaints[i].complaint_status \in {"accepted", "in_progress"}
                           /\ (users[u].role # "contractor" \/ complaints[i].contractor_id = u)})

\* GET /api/grievances/:id of the CommonJS server.  Its sessions are created
\* by its citizen and authority login routes only, so no caller of this
\* handler has role contractor.
GetGrievanceLegacy(u, id) ==
  /\ last = NoReq
  /\ users[u].role \in {"citizen", "authority"}
  /\ LET r == Req("getLegacy", u, id)
     IN IF id \notin Ids THEN Reject(r, 404, "Not found")
        ELSE IF users[u].role = "citizen" /\ complaints[id].citizen_id # u
               THEN Reject(r, 403, "Forbidden")
        ELSE Respond(r, {id})

---------------------------------------------------------------------------
(* Startup: schema migration and seeding *)

\* Categories inserted by runSchema of the CommonJS server.
LegacyCategoryNames ==
  <<"Potholes & Roads", "Street Lights", "Waste Management", "Water Supply",
    "Drainage", "Parks & Green Spaces", "Traffic & Parking", "Noise Pollution", "Other">>

\* The administrator inserted by runSchema of the CommonJS server.
LegacyAdmin == [email |-> "admin@government.gov", role |-> "authority"]

\* INSERT OR IGNORE INTO grievance_categories (name): ignored only when the
\* table has the UNIQUE constraint and the name is stored.
InsertCategory(cats, name, unique) ==
  IF unique /\ (\E i \in DOMAIN cats : cats[i] = name) THEN cats ELSE Append(cats, name)

RECURSIVE InsertCategories(_, _, _)
\* for (const name of categoryNames) insertCategory.run(name)
InsertCategories(cats, names, unique) ==
  IF names = <<>> THEN cats
  ELSE InsertCategories(InsertCategory(cats, Head(names), unique), Tail(names), unique)

\* INSERT OR IGNORE INTO users (email, ...): users.email is UNIQUE.
InsertUser(us, user) ==
  IF \E i \in DOMAIN us : us[i].email = user.email THEN us ELSE Append(us, user)

RECURSIVE InsertUsers(_, _)
InsertUsers(us, list) ==
  IF list = <<>> THEN us ELSE InsertUsers(InsertUser(us, Head(list)), Tail(list))

\* The status CASE of the rebuild and of normalizeGrievanceWorkflowData.
NormalizedStatus_AllowedOrSubmitted(status) ==
  IF status \in ALLOWED_STATUS THEN status ELSE "submitted"

NormalizedStatus(status) ==
  CASE status = "under_review" -> "assigned"
    [] status = "awaiting_confirmation" -> "in_progress"
    [] status = "closed" -> "resolved"
    [] status = "escalated" -> "reopened"
    [] status \in ALLOWED_STATUS -> status
    [] OTHER -> "submitted"

\* The priority CASE of the rebuild and of normalizeGrievanceWorkflowData.
NormalizedPriority(priority) ==
  CASE priority \in {"low", "medium", "high"} -> priority
    [] priority = "urgent" -> "high"
    [] OTHER -> "medium"

\* The complaint_status CASE of the rebuild.
RebuiltComplaintStatus(cstatus) ==
  CASE cstatus = NullText \/ cstatus = "" -> "pending"
    [] cstatus \in {"pending", "accepted", "in_progress", "closed", "rejected", "reopened"}
         -> cstatus
    [] OTHER -> "pending"

\* normalizeGrievanceWorkflowData on one row.
NormalizedRow(row) ==
  [row EXCEPT !.status = NormalizedStatus(row.status),
              !.priority = NormalizedPriority(row.priority)]

\* INSERT INTO grievances_new ... SELECT ... FROM grievances on one row: the
\* listed columns are copied, status, priority and complaint_status through
\* their CASE; grievances_new has no rating, feedback or resolved_at column.
RebuiltRow(row) ==
  [row EXCEPT !.status = NormalizedStatus(row.status),
              !.priority = NormalizedPriority(row.priority),
              !.complaint_status = RebuiltComplaintStatus(row.complaint_status),
              !.citizen_rating = Null,
              !.citizen_feedback = NullText,
              !.resolved_at = Null]

\* The process has started and has not yet called initDb.
Start == [NoReq EXCEPT !.op = "start"]

\* CREATE TABLE IF NOT EXISTS of initDb: a table that exists is left alone.
Created(sch) ==
  [sch EXCEPT !.users = IF sch.users = "none" THEN "current" ELSE sch.users,
              !.grievances = IF sch.grievances = "none" THEN "current"
                             ELSE sch.grievances,
              !.categories = IF sch.categories = "none" THEN "unique"
                             ELSE sch.categories,
              !.foreign_keys = TRUE]

\* The part of the database one rebuild works on: the table (its version and
\* rows), the shadow table, and the open transaction with the state it
\* started from.
Snapshot(t) ==
  [table |-> t.table, rows |-> t.rows, shadow |-> t.shadow, shadowRows |-> t.shadowRows]
Target(version, rows, shadow) ==
  [table |-> version, rows |-> rows, shadow |-> shadow, shadowRows |-> <<>>,
   inTx |-> FALSE,
   saved |-> [table |-> version, rows |-> rows, shadow |-> shadow, shadowRows |-> <<>>]]

\* The statements of the rebuild script, in order: 1 BEGIN TRANSACTION,
\* 2 CREATE TABLE <shadow>, 3 INSERT INTO <shadow> ... SELECT, 4 DROP TABLE,
\* 5 ALTER TABLE <shadow> RENAME TO, 6 COMMIT.
Statements == 1 .. 6

\* One statement of the script; `copied` is what the SELECT yields.
ExecStatement(t, k, copied) ==
  CASE k = 1 -> [t EXCEPT !.inTx = TRUE, !.saved = Snapshot(t)]
    [] k = 2 -> [t EXCEPT !.shadow = TRUE, !.shadowRows = <<>>]
    [] k = 3 -> [t EXCEPT !.shadowRows = copied]
    [] k = 4 -> [t EXCEPT !.table = "none", !.rows = <<>>]
    [] k = 5 -> [t EXCEPT !.table = "current", !.rows = t.shadowRows,
                          !.shadow = FALSE, !.shadowRows = <<>>]
    [] k = 6 -> [t EXCEPT !.inTx = FALSE]

\* database.exec(script) up to statement n: the statements run in order.
RECURSIVE Exec(_, _, _, _)
Exec(t, k, n, copied) ==
  IF k > n THEN t ELSE Exec(ExecStatement(t, k, copied), k + 1, n, copied)

\* The statement at which exec throws, 0 if none: CREATE TABLE when the
\* shadow table exists, the INSERT ... SELECT when the table lacks a selected
\* column, and the statement a fault of the storage hits (0: no fault).
FailingStatement(t, copyFails, fault) ==
  LET own == IF t.shadow THEN 2 ELSE IF copyFails THEN 3 ELSE 0
  IN IF own = 0 THEN fault ELSE IF fault = 0 THEN own ELSE Min2(own, fault)

\* catch (error) { database.exec("ROLLBACK;"); throw error; }: the open
\* transaction is undone, schema changes included.
Rollback_KeepsChanges(t) == [t EXCEPT !.inTx = FALSE]

Rollback(t) ==
  IF t.inTx
    THEN [t EXCEPT !.table = t.saved.table, !.rows = t.saved.rows,
                   !.shadow = t.saved.shadow, !.shadowRows = t.saved.shadowRows,
                   !.inTx = FALSE]
    ELSE t

\* The try/catch of a rebuild: the script runs to its end, or to the failing
\* statement and is rolled back.
Rebuild(t, copied, copyFails, fault) ==
  LET k == FailingStatement(t, copyFails, fault)
  IN IF k = 0
       THEN [state |-> Exec(t, 1, 6, copied), failed |-> 0]
       ELSE [state |-> Rollback(Exec(t, 1, k - 1, copied)), failed |-> k]

\* No fault, or the rebuild of `table` fails at `statement`.
NoFault == [table |-> "none", statement |-> 0]
Faults ==
  {NoFault} \cup {[table |-> tb, statement |-> k] :
                    tb \in {"users", "grievances"}, k \in Statements}

\* The shadow tables of the file after a rebuild that worked on `name`.
ShadowAfter(shadow, name, t) ==
  (shadow \ {name}) \cup (IF t.shadow THEN {name} ELSE {})

\* initDb() of the TypeScript server: if (db) return db; the handle is
\* assigned; CREATE TABLE IF NOT EXISTS; ensureUsersRoleSupportsContractor;
\* ensureGrievancesWorkflowSchema; the ensureColumn calls; seed.  Each rebuild
\* switches foreign_keys off, runs its script in try/catch and switches
\* foreign_keys on in finally.  The grievances rebuild SELECTs reporter_name,
\* images_json, complaint_status, contractor_id, ... FROM grievances: on the
\* table of the CommonJS server, which has none of these columns, the INSERT
\* fails.  A rebuild that throws ends initDb there, with `db` assigned.
InitDbCall(fault) ==
  /\ LET r == [Req("initDb", 0, 0) EXCEPT !.status = schema.grievances]
         created == Created(schema)
         u == IF created.users = "current"
                THEN [state |-> Target("current", users, "users_new" \in created.shadow),
                      failed |-> 0]
                ELSE Rebuild(Target(created.users, users, "users_new" \in created.shadow),
                             users, FALSE,
                             IF fault.table = "users" THEN fault.statement ELSE 0)
         afterUsers ==
           [created EXCEPT !.users = u.state.table,
                           !.shadow = ShadowAfter(created.shadow, "users_new", u.state)]
         g == IF created.grievances = "current"
                THEN [state |-> Target("current", complaints,
                                       "grievances_new" \in created.shadow),
                      failed |-> 0]
                ELSE Rebuild(Target(created.grievances, complaints,
                                    "grievances_new" \in created.shadow),
                             [i \in Ids |-> RebuiltRow(complaints[i])],
                             created.grievances = "legacy",
                             IF fault.table = "grievances" THEN fault.statement ELSE 0)
         afterGrievances ==
           [afterUsers EXCEPT !.grievances = g.state.table,
                              !.shadow = ShadowAfter(afterUsers.shadow, "grievances_new",
                                                     g.state)]
         rows == [i \in DOMAIN g.state.rows |-> NormalizedRow(g.state.rows[i])]
     IN IF db
          THEN \* if (db) return db
               /\ last' = [r EXCEPT !.status = "", !.code = 200]
               /\ before' = complaints
               /\ UNCHANGED <<users, categories, complaints, schema, db, now, everResolved,
                              sessionVars, tokenHistory>>
        ELSE IF u.failed # 0
          THEN /\ last' = [r EXCEPT !.code = 500, !.error = "SQLITE_ERROR",
                                    !.threw = "ensureUsersRoleSupportsContractor",
                                    !.id = u.failed]
               /\ before' = complaints
               /\ db' = TRUE
               /\ schema' = afterUsers
               /\ users' = u.state.rows
               /\ UNCHANGED <<categories, complaints, now, everResolved,
                              sessionVars, tokenHistory>>
        ELSE IF g.failed # 0
          THEN /\ last' = [r EXCEPT !.code = 500,
                                    !.error = IF created.grievances = "legacy" /\ g.failed = 3
                                                THEN "no such column: reporter_name"
                                                ELSE "SQLITE_ERROR",
                                    !.threw = "ensureGrievancesWorkflowSchema",
                                    !.id = g.failed]
               /\ before' = complaints
               /\ db' = TRUE
               /\ schema' = afterGrievances
               /\ users' = u.state.rows
               /\ complaints' = g.state.rows
               /\ UNCHANGED <<categories, now, everResolved, sessionVars, tokenHistory>>
        ELSE /\ last' = [r EXCEPT !.code = 200]
             /\ before' = complaints
             /\ db' = TRUE
             /\ schema' = afterGrievances
             /\ complaints' = rows
             /\ categories' = InsertCategories(categories, CategoryNames,
                                               created.categories = "unique")
             /\ users' = InsertUsers(u.state.rows, SeedUsers)
             /\ everResolved' =
                  everResolved \cup {i \in DOMAIN rows : rows[i].status = "resolved"}
             /\ UNCHANGED <<now, sessionVars, tokenHistory>>

\* initDb() as the servers call it, once, when the process starts.
InitDb(fault) == last = Start /\ InitDbCall(fault)

\* The startup code has caught an error of initDb, or has called getDb.
Caught ==
  \/ (last.op = "initDb" /\ last.code # 200)
  \/ last.op = "getDb"

\* initDb() called again after an error of it was caught.
InitDbAgain == Caught /\ InitDbCall(NoFault)

\* getDb(): if (!db) throw new Error("Database not initialized"); return db.
\* Called by the startup code before or after initDb.
GetDb ==
  /\ (last = Start \/ Caught)
  /\ last' = IF db THEN [Req("getDb", 0, 0) EXCEPT !.code = 200]
             ELSE [Req("getDb", 0, 0) EXCEPT !.code = 500,
                                             !.error = "Database not initialized"]
  /\ before' = complaints
  /\ UNCHANGED <<users, categories, complaints, schema, db, now, everResolved,
                 sessionVars, tokenHistory>>

\* initDb() of the CommonJS server (runSchema): CREATE TABLE IF NOT EXISTS
\* with its own table definitions, then its categories and administrator.
LegacyInitDb ==
  /\ last = Start
  /\ last' = [Req("runSchema", 0, 0) EXCEPT !.status = schema.grievances, !.code = 200]
  /\ before' = complaints
  /\ schema' = [schema EXCEPT
                  !.users = IF schema.users = "none" THEN "legacy" ELSE schema.users,
                  !.grievances = IF schema.grievances = "none" THEN "legacy"
                                 ELSE schema.grievances,
                  !.categories = IF schema.categories = "none" THEN "unique"
                                 ELSE schema.categories,
                  !.foreign_keys = TRUE]
  /\ categories' = InsertCategories(categories, LegacyCategoryNames,
                                    schema.categories # "plain")
  /\ users' = InsertUser(users, LegacyAdmin)
  /\ UNCHANGED <<complaints, db, now, everResolved, sessionVars, tokenHistory>>

\* The process stops (or has died in initDb) and is started again on the
\* same data file.
Restart ==
  /\ \/ last = NoReq
     \/ last.op = "runSchema"
     \/ (last.op = "initDb" /\ last.code # 200)
     \/ last.op = "getDb"
  /\ last' = Start
  /\ before' = <<>>
  /\ db' = FALSE
  /\ sessions' = NoSessions
  /\ schema' = [schema EXCEPT !.foreign_keys = FALSE]
  /\ UNCHANGED <<users, categories, complaints, now, everResolved,
                 user_sessions, legacySessions, tokenHistory>>

---------------------------------------------------------------------------
(* Sessions *)

\* A request without an Authorization header.
NoToken == 0

\* map.set(token, v) and map.delete(token).
Put(map, token, v) ==
  [t \in DOMAIN map \cup {token} |-> IF t = token THEN v ELSE map[t]]
Delete(map, token) == [t \in DOMAIN map \ {token} |-> map[t]]

\* uuid(): a token that no login returned and no client has sent before.
Fresh(token) == token \notin DOMAIN issued /\ token \notin loggedOut

\* SELECT * FROM users WHERE email = ? AND role = ?
FindUser(email, role) ==
  {u \in DOMAIN users : users[u].email = email /\ users[u].role = role}

\* The SessionUser stored for user u (name and e-mail left out).
SessionUserOf(u) == [id |-> u, role |-> users[u].role]

\* POST /api/auth/login of the TypeScript server.  valid: authSchema accepts
\* the body; ok: bcrypt.compareSync(password, user.password); token: uuid().
Login(email, role, valid, ok, token) ==
  /\ last = NoReq
  /\ Fresh(token)
  /\ LET r == Req("login", 0, 0)
         found == FindUser(email, role)
     IN IF ~valid THEN Reject(r, 400, "Invalid payload")
        ELSE IF found = {} \/ ~ok THEN Reject(r, 401, "Invalid credentials")
        ELSE LET u == CHOOSE x \in found : TRUE
             IN /\ sessions' = Put(sessions, token, SessionUserOf(u))
                /\ user_sessions' = Put(user_sessions, token, u)
                /\ issued' = Put(issued, token,
                                 [id |-> u, role |-> users[u].role, by |-> "server.ts"])
                /\ last' = [r EXCEPT !.caller = u, !.status = users[u].role,
                                     !.token = token, !.code = 200]
                /\ before' = complaints
                /\ UNCHANGED <<users, categories, complaints, schema, db, now,
                               everResolved, legacySessions, loggedOut>>

\* auth of the TypeScript server, in front of every protected route: the Map
\* first, then user_sessions joined with users, whose row is put in the Map.
Auth(token) ==
  /\ last = NoReq
  /\ LET r == [Req("auth", 0, 0) EXCEPT !.token = token]
     IN IF token = NoToken THEN Reject(r, 401, "Unauthorized")
        ELSE IF token \notin DOMAIN sessions /\ token \notin DOMAIN user_sessions
          THEN Reject(r, 401, "Unauthorized")
        ELSE LET sessionUser == IF token \in DOMAIN sessions THEN sessions[token]
                                ELSE SessionUserOf(user_sessions[token])
             IN /\ sessions' = Put(sessions, token, sessionUser)
                /\ last' = [r EXCEPT !.caller = sessionUser.id,
                                     !.status = sessionUser.role, !.code = 200]
                /\ before' = complaints
                /\ UNCHANGED <<users, categories, complaints, schema, db, now,
                               everResolved, user_sessions, legacySessions,
                               tokenHistory>>

\* POST /api/auth/citizen/login and /api/auth/authority/login of the CommonJS
\* server: the session lives in its Map only.
LegacyLogin(email, role, ok, token) ==
  /\ last = NoReq
  /\ Fresh(token)
  /\ role \in {"citizen", "authority"}
  /\ LET r == Req("legacyLogin", 0, 0)
         found == FindUser(email, role)
     IN IF found = {} \/ ~ok THEN Reject(r, 401, "Invalid credentials")
        ELSE LET u == CHOOSE x \in found : TRUE
             IN /\ legacySessions' = Put(legacySessions, token, [id |-> u, role |-> role])
                /\ issued' = Put(issued, token,
                                 [id |-> u, role |-> role, by |-> "server.js"])
                /\ last' = [r EXCEPT !.caller = u, !.status = role,
                                     !.token = token, !.code = 200]
                /\ before' = complaints
                /\ UNCHANGED <<users, categories, complaints, schema, db, now,
                               everResolved, sessions, user_sessions, loggedOut>>

\* authMiddleware of the CommonJS server.
AuthMiddleware(token) ==
  /\ last = NoReq
  /\ LET r == [Req("authMiddleware", 0, 0) EXCEPT !.token = token]
     IN IF token = NoToken \/ token \notin DOMAIN legacySessions
          THEN Reject(r, 401, "Unauthorized")
        ELSE /\ last' = [r EXCEPT !.caller = legacySessions[token].id,
                                  !.status = legacySessions[token].role, !.code = 200]
             /\ before' = complaints
             /\ UNCHANGED <<users, categories, complaints, schema, db, now,
                            everResolved, sessionVars, tokenHistory>>

\* POST /api/auth/logout, the one logout route of the repository (CommonJS
\* server): if (token) sessions.delete(token); res.json({ success: true }).
Logout(token) ==
  /\ last = NoReq
  /\ last' = [Req("logout", 0, 0) EXCEPT !.token = token, !.code = 200]
  /\ before' = complaints
  /\ legacySessions' = IF token = NoToken THEN legacySessions
                       ELSE Delete(legacySessions, token)
  /\ loggedOut' = IF token = NoToken THEN loggedOut ELSE loggedOut \cup {token}
  /\ UNCHANGED <<users, categories, complaints, schema, db, now, everResolved,
                 sessions, user_sessions, issued>>

---------------------------------------------------------------------------
(* Environment *)

\* CURRENT_TIMESTAMP moves on between two requests.
Tick ==
  /\ last = NoReq
  /\ now' = now + 1
  /\ UNCHANGED <<users, categories, complaints, schema, db, last, before, everResolved, sessionVars, tokenHistory>>

\* res.json(...): the response leaves the server.
Deliver ==
  /\ last # NoReq
  /\ last.op \notin {"start", "runSchema", "getDb"}
  /\ ~(last.op = "initDb" /\ last.code # 200)
  /\ last' = NoReq
  /\ before' = <<>>
  /\ UNCHANGED <<users, categories, complaints, schema, db, now, everResolved, sessionVars, tokenHistory>>

---------------------------------------------------------------------------
(* Inputs of the requests *)

Callers == DOMAIN users
Photos == {NoFile, FileA}
Proofs == {NoFile, FileA, FileB, FileC}
\* The generated ticket number: one already stored, or a new one.
Tickets == 1 .. (Len(complaints) + 1)
\* The e-mail of a registration: one that is new, or the seeded citizen's.
RegisterEmails == {"resident@nagarseva.com", "citizen@nagarseva.com"}
\* rating and feedback of a feedback request: both given, or both empty.
FeedbackInputs == {<<4, "good">>, <<0, "">>}
\* status and `other` of an authority update.
UpdateInputs == {<<s, FALSE>> : s \in ALLOWED_STATUS \cup {"", "closed"}} \cup {<<"", TRUE>>}

---------------------------------------------------------------------------
(* Spec: every handler of both servers on a table of at most MaxComplaints *)
(* rows, all requests arriving within one second of the clock.             *)

Next ==
  \/ \E email \in RegisterEmails : Len(users) < MaxUsers /\ Register(email)
  \/ \E u \in Callers, valid \in BOOLEAN, spam \in BOOLEAN, photo \in Photos, ticket \in Tickets :
       Len(complaints) < MaxComplaints /\ CreateComplaint(u, valid, spam, photo, ticket, "medium", TRUE)
  \/ \E u \in Callers, valid \in BOOLEAN, ticket \in Tickets :
       Len(complaints) < MaxComplaints /\ SubmitGrievance(u, valid, ticket)
  \/ \E u \in Callers, id \in 1 .. MaxComplaints, v \in SetStatusEnum \cup {"resolved"} :
       SetStatus(u, id, v)
  \/ \E u \in Callers, id \in 1 .. MaxComplaints, file \in Proofs :
       CloseWithProof(u, id, file)
  \/ \E u \in Callers, pick \in [Ids -> Contractors] : DistributeRandom(u, pick)
  \/ \E u \in Callers, id \in 1 .. MaxComplaints, in \in FeedbackInputs :
       Feedback(u, id, in[1], in[2])
  \/ \E u \in Callers, id \in 1 .. MaxComplaints : Reopen(u, id)
  \/ \E u \in Callers, id \in 1 .. MaxComplaints, in \in UpdateInputs :
       AuthorityUpdate(u, id, in[1], in[2])
  \/ Deliver

Spec == Init /\ [][Next]_vars

---------------------------------------------------------------------------
(* TimedSpec: the handlers of the TypeScript server on rows of either      *)
(* origin, with the clock advancing between requests.                      *)

TimedNext ==
  \/ \E u \in Callers, valid \in BOOLEAN, spam \in BOOLEAN, photo \in Photos, ticket \in Tickets :
       Len(complaints) < MaxComplaints /\ CreateComplaint(u, valid, spam, photo, ticket, "medium", TRUE)
  \/ \E u \in Callers, valid \in BOOLEAN, ticket \in Tickets :
       Len(complaints) < MaxComplaints /\ SubmitGrievance(u, valid, ticket)
  \/ \E u \in Callers, id \in 1 .. MaxComplaints, v \in SetStatusEnum \cup {"resolved"} :
       SetStatus(u, id, v)
  \/ \E u \in Callers, id \in 1 .. MaxComplaints, file \in Proofs :
       CloseWithProof(u, id, file)
  \/ \E u \in Callers, pick \in [Ids -> Contractors] : DistributeRandom(u, pick)
  \/ now < MaxTime /\ Tick
  \/ Deliver

TimedSpec == Init /\ [][TimedNext]_vars

---------------------------------------------------------------------------
(* WideSpec: the handlers of the TypeScript server on a table of up to     *)
(* MaxWideComplaints rows, complaints filed without photos.                *)

WideNext ==
  \/ \E u \in Callers, valid \in BOOLEAN, ticket \in Tickets :
       Len(complaints) < MaxWideComplaints /\ CreateComplaint(u, valid, FALSE, NoFile, ticket, "medium", TRUE)
  \/ \E u \in Callers, id \in 1 .. MaxWideComplaints, v \in SetStatusEnum :
       SetStatus(u, id, v)
  \/ \E u \in Callers, id \in 1 .. MaxWideComplaints, file \in {NoFile, FileB} :
       CloseWithProof(u, id, file)
  \/ \E u \in Callers, pick \in [Ids -> Contractors] : DistributeRandom(u, pick)
  \/ Deliver

WideSpec == Init /\ [][WideNext]_vars

---------------------------------------------------------------------------
(* PickSpec: pickLeastLoadedContractorId applied to any users table of up  *)
(* to MaxPickUsers rows and any grievances table of up to MaxPickRows rows. *)

Roles == {"citizen", "authority", "contractor"}
COMPLAINT_STATUS == {"pending", "accepted", "in_progress", "closed"}

PickInit ==
  /\ now = 1
  /\ users \in UNION {[1 .. n -> {[role |-> r] : r \in Roles}] : n \in 0 .. MaxPickUsers}
  /\ categories = CategoryNames
  /\ schema = CurrentSchema
  /\ db = TRUE
  /\ complaints \in
       UNION {[1 .. m -> {[contractor_id |-> c, complaint_status |-> cs] :
                            c \in 0 .. Len(users), cs \in COMPLAINT_STATUS}] :
              m \in 0 .. MaxPickRows}
  /\ last = NoReq
  /\ before = <<>>
  /\ everResolved = {}
  /\ sessions = NoSessions
  /\ user_sessions = NoSessions
  /\ legacySessions = NoSessions
  /\ issued = NoSessions
  /\ loggedOut = {}

\* const contractorId = pickLeastLoadedContractorId(db)
PickStep ==
  /\ last = NoReq
  /\ last' = [Req("pick", 0, 0) EXCEPT
                !.id = pickLeastLoadedContractorId(users, complaints), !.code = 200]
  /\ UNCHANGED <<users, categories, complaints, schema, db, now, before, everResolved, sessionVars, tokenHistory>>

PickNext == PickStep

PickSpec == PickInit /\ [][PickNext]_vars

---------------------------------------------------------------------------
(* Vocabulary of the claims.  `before` is the table when the request of    *)
(* `last` arrived, `complaints` the table when it was answered.            *)

Answered(op) == last.op = op
\* The request of `last` names a row that existed when it arrived.
OnRow == last.id \in DOMAIN before
\* Every row other than row i is as it was, and no row appeared or vanished.
OthersKept(i) ==
  /\ DOMAIN complaints = DOMAIN before
  /\ \A j \in DOMAIN before : j # i => complaints[j] = before[j]
Staff(u) == users[u].role \in {"authority", "contractor"}

---------------------------------------------------------------------------
\* C1: a close-with-resolution-proof request on a complaint whose
\* complaint_status is neither accepted nor in_progress is rejected and
\* leaves the whole table, hence every field of that complaint, as it was;
\* when the request would otherwise be admitted (caller is authority or
\* contractor and an image is attached) the rejection is the
\* invalid-transition error.
C1_CloseRejectsInvalidTransition ==
  (Answered("close") /\ OnRow
     /\ before[last.id].complaint_status \notin {"accepted", "in_progress"})
  => /\ last.code \in {400, 403}
     /\ complaints = before
     /\ (Staff(last.caller) /\ last.file # NoFile
           => /\ last.code = 400
              /\ last.error = "Only accepted or in-progress complaints can be closed")

\* C1 witness: a close request with an image by the authority on a pending
\* complaint, after the clock has moved past the complaint's updated_at.
C1_Witness ==
  /\ Answered("close") /\ OnRow
  /\ last.error = "Only accepted or in-progress complaints can be closed"
  /\ before[last.id].complaint_status = "pending"
  /\ now > before[last.id].updated_at

---------------------------------------------------------------------------
\* C2: a successful set-status request with value v leaves the target
\* complaint with complaint_status = v and status = assigned / in_progress /
\* resolved for v = accepted / in_progress / closed; contractor_id is the
\* caller's id when the caller is a contractor and unchanged when the caller
\* is an authority; no other complaint is changed.
C2_SetStatusWritesPair ==
  (Answered("setStatus") /\ last.code = 200)
  => /\ OnRow
     /\ last.status \in {"accepted", "in_progress", "closed"}
     /\ complaints[last.id].complaint_status = last.status
     /\ (last.status = "accepted" => complaints[last.id].status = "assigned")
     /\ (last.status = "in_progress" => complaints[last.id].status = "in_progress")
     /\ (last.status = "closed" => complaints[last.id].status = "resolved")
     /\ (users[last.caller].role = "contractor"
           => complaints[last.id].contractor_id = last.caller)
     /\ (users[last.caller].role = "authority"
           => complaints[last.id].contractor_id = before[last.id].contractor_id)
     /\ OthersKept(last.id)

\* C2 witness: a contractor closes, by set-status, one of two complaints.
C2_Witness ==
  /\ Answered("setStatus") /\ last.code = 200
  /\ last.status = "closed"
  /\ users[last.caller].role = "contractor"
  /\ Len(complaints) >= 2

---------------------------------------------------------------------------
\* C3: whenever a close-with-resolution-proof request passes the
\* precondition and authorization checks it succeeds, and the stored row is
\* then status = resolved, complaint_status = closed with the uploaded image
\* as resolution image, whatever the verification says; the verification is
\* in the response only: the stored row is the same for every verification
\* result.
C3_CloseAlwaysCommits ==
  /\ (Answered("close") /\ OnRow /\ Staff(last.caller) /\ last.file # NoFile
        /\ before[last.id].complaint_status \in {"accepted", "in_progress"}
        /\ ~(users[last.caller].role = "contractor"
               /\ before[last.id].contractor_id \notin {Null, last.caller})
      => last.code = 200)
  /\ (Answered("close") /\ last.code = 200
      => /\ last.verification.confidence \in {"low", "medium", "high"}
         /\ complaints[last.id] =
              [before[last.id] EXCEPT
                 !.status = "resolved",
                 !.complaint_status = "closed",
                 !.resolution_image_url = last.file,
                 !.contractor_id = IF users[last.caller].role = "contractor"
                                     THEN last.caller ELSE @,
                 !.updated_at = now]
         /\ last.file # NoFile)

\* C3 witness: a close that succeeded although the verification reported
\* resolved = false with low confidence for an identical before/after image.
C3_Witness ==
  /\ Answered("close") /\ last.code = 200
  /\ last.verification = [resolved |-> FALSE, confidence |-> "low"]
  /\ before[last.id].images_json = last.file
  /\ complaints[last.id].status = "resolved"

---------------------------------------------------------------------------
\* C4: complaint_status = closed is terminal: a complaint whose
\* complaint_status is closed when a request arrives still has
\* complaint_status closed when the request is answered, for every
\* operation and caller.
C4_ClosedIsTerminal ==
  \A i \in DOMAIN before :
    before[i].complaint_status = "closed" => complaints[i].complaint_status = "closed"

---------------------------------------------------------------------------
\* The edges of the workflow state machine of `status`.
WorkflowEdges ==
  {<<"submitted", "assigned">>, <<"assigned", "in_progress">>,
   <<"in_progress", "resolved">>, <<"resolved", "reopened">>,
   <<"reopened", "assigned">>, <<"submitted", "rejected">>}

\* C5: every change of a complaint's status made by any operation follows
\* an edge of the workflow state machine (submitted -> assigned ->
\* in_progress -> resolved -> reopened -> assigned, submitted -> rejected).
C5_StatusFollowsWorkflow ==
  \A i \in DOMAIN before :
    before[i].status # complaints[i].status
      => <<before[i].status, complaints[i].status>> \in WorkflowEdges

---------------------------------------------------------------------------
\* C6: for every complaint, resolved_at is non-null if and only if the
\* complaint's status has been resolved at some point of its history.
C6_ResolvedAtIffEverResolved ==
  \A i \in Ids : (complaints[i].resolved_at # Null) <=> (i \in everResolved)

---------------------------------------------------------------------------
\* C7: a reopen request succeeds only when the caller authored the
\* complaint and its status is resolved; on success status becomes reopened
\* and complaint_status (like every column but status and updated_at) is
\* left as it was; in every other case the request is rejected and the
\* table is unchanged.
C7_ReopenOnlyOwnResolved ==
  Answered("reopen")
  => IF /\ OnRow
        /\ before[last.id].citizen_id = last.caller
        /\ before[last.id].status = "resolved"
       THEN /\ last.code = 200
            /\ complaints[last.id] =
                 [before[last.id] EXCEPT !.status = "reopened",
                                         !.updated_at = complaints[last.id].updated_at]
            /\ complaints[last.id].complaint_status = before[last.id].complaint_status
            /\ OthersKept(last.id)
       ELSE /\ last.code \in {400, 403, 404}
            /\ complaints = before

\* C7 witness: the author reopens a complaint that was closed with
\* complaint_status = closed, which stays closed.
C7_Witness ==
  /\ Answered("reopen") /\ last.code = 200
  /\ before[last.id].complaint_status = "closed"
  /\ complaints[last.id].status = "reopened"

---------------------------------------------------------------------------
\* C8: citizen_rating and citizen_feedback of a complaint change only in a
\* feedback request of the complaint's author made while its status is
\* resolved; a feedback request in any other status or by any other caller
\* is rejected and leaves the table unchanged; a new complaint starts with
\* neither.
C8_FeedbackOnlyOwnResolved ==
  /\ \A i \in DOMAIN before :
       (\/ complaints[i].citizen_rating # before[i].citizen_rating
        \/ complaints[i].citizen_feedback # before[i].citizen_feedback)
       => /\ Answered("feedback") /\ last.id = i /\ last.code = 200
          /\ before[i].citizen_id = last.caller
          /\ before[i].status = "resolved"
  /\ (Answered("feedback")
        /\ ~(OnRow /\ before[last.id].citizen_id = last.caller
                   /\ before[last.id].status = "resolved")
      => /\ last.code \in {400, 403, 404}
         /\ complaints = before)
  /\ (last.code = 201
      => \A i \in Ids \ DOMAIN before :
           complaints[i].citizen_rating = Null /\ complaints[i].citizen_feedback = NullText)

\* C8 witness: the author's rating of a resolved complaint is stored.
C8_Witness ==
  /\ Answered("feedback") /\ last.code = 200
  /\ before[last.id].citizen_rating = Null
  /\ complaints[last.id].citizen_rating = 4
  /\ complaints[last.id].citizen_feedback = "good"

---------------------------------------------------------------------------
\* Number of rows of `rows` that are open (accepted or in_progress) and
\* assigned to contractor c.
OpenCount(rows, c) ==
  Cardinality({i \in DOMAIN rows :
                 rows[i].contractor_id = c
                 /\ (rows[i].complaint_status = "accepted"
                     \/ rows[i].complaint_status = "in_progress")})

\* c is a least-loaded contractor of (us, rows) with the lowest id.
IsLeastLoaded(us, rows, c) ==
  /\ c \in DOMAIN us /\ us[c].role = "contractor"
  /\ \A d \in DOMAIN us :
       us[d].role = "contractor"
         => /\ OpenCount(rows, c) <= OpenCount(rows, d)
            /\ (OpenCount(rows, c) = OpenCount(rows, d) => c <= d)

\* C9: a complaint created by a citizen is appended with status = submitted;
\* when at least one contractor exists it carries, in that same row,
\* complaint_status = accepted and the least-loaded contractor (lowest id
\* among the least loaded) as contractor_id; the other rows are unchanged.
C9_CreateAssignsLeastLoaded ==
  (Answered("create") /\ last.code = 201)
  => /\ Len(complaints) = Len(before) + 1
     /\ \A j \in DOMAIN before : complaints[j] = before[j]
     /\ LET row == complaints[Len(complaints)]
        IN /\ row.status = "submitted"
           /\ row.citizen_id = last.caller
           /\ (Contractors # {}
                 => /\ row.complaint_status = "accepted"
                    /\ IsLeastLoaded(users, before, row.contractor_id))

\* C9 witness: a second complaint is created while the lowest-numbered
\* contractor still has an open complaint, and goes to another contractor.
C9_Witness ==
  /\ Answered("create") /\ last.code = 201
  /\ Len(before) = 1
  /\ before[1].complaint_status \in {"accepted", "in_progress"}
  /\ before[1].contractor_id = 3
  /\ complaints[2].contractor_id = 4

---------------------------------------------------------------------------
\* C10: for every users table and grievances table, least-loaded assignment
\* returns a user with role contractor whose number of complaints with
\* complaint_status accepted or in_progress is minimal among all
\* contractors, the lowest id among the contractors with that number; it
\* returns no contractor exactly when no contractor exists.
C10_PickIsLeastLoadedLowestId ==
  Answered("pick")
  => /\ (last.id = Null <=> ~ \E u \in DOMAIN users : users[u].role = "contractor")
     /\ (last.id # Null => IsLeastLoaded(users, complaints, last.id))

\* C10 witness: a contractor with a lower id is passed over because it has
\* more open complaints than the one returned.
C10_Witness ==
  /\ Answered("pick") /\ last.id # Null
  /\ \E d \in DOMAIN users :
       /\ users[d].role = "contractor" /\ d < last.id
       /\ OpenCount(complaints, d) > OpenCount(complaints, last.id)

---------------------------------------------------------------------------
(* DistributeSpec: distribute-random on a table of up to                   *)
(* MaxDistributeComplaints rows of either origin: complaints created with  *)
(* a contractor (POST /api/complaints) or without one (POST                *)
(* /api/grievances), moved on by set-status or resolved by the authority   *)
(* update.                                                                 *)

MaxDistributeComplaints == 2

DistributeNext ==
  \/ \E u \in Callers, valid \in BOOLEAN, ticket \in Tickets :
       /\ Len(complaints) < MaxDistributeComplaints
       /\ CreateComplaint(u, valid, FALSE, NoFile, ticket, "medium", TRUE)
  \/ \E u \in Callers, valid \in BOOLEAN, ticket \in Tickets :
       Len(complaints) < MaxDistributeComplaints /\ SubmitGrievance(u, valid, ticket)
  \/ \E u \in Callers, id \in 1 .. MaxDistributeComplaints, v \in SetStatusEnum :
       SetStatus(u, id, v)
  \/ \E u \in Callers, pick \in [Ids -> Contractors] : DistributeRandom(u, pick)
  \/ \E u \in Callers, id \in 1 .. MaxDistributeComplaints :
       AuthorityUpdate(u, id, "resolved", FALSE)
  \/ Deliver

DistributeSpec == Init /\ [][DistributeNext]_vars

---------------------------------------------------------------------------
\* C11: after a successful distribute-randomly request, every complaint that
\* was neither closed (complaint_status) nor resolved (status) when the
\* request arrived has the id of an existing contractor as contractor_id,
\* keeps its complaint_status if that was accepted or in_progress and has
\* complaint_status accepted otherwise; every complaint that was closed or
\* resolved is exactly as it was; no row appears or vanishes.
C11_DistributeAssignsOpenOnly ==
  (Answered("distribute") /\ last.code = 200)
  => /\ DOMAIN complaints = DOMAIN before
     /\ \A i \in DOMAIN before :
          IF before[i].complaint_status # "closed" /\ before[i].status # "resolved"
            THEN /\ complaints[i].contractor_id \in Contractors
                 /\ complaints[i].complaint_status =
                      IF before[i].complaint_status \in {"accepted", "in_progress"}
                        THEN before[i].complaint_status
                        ELSE "accepted"
            ELSE complaints[i] = before[i]

\* C11 witness: one distribution that gave a contractor to a pending,
\* unassigned complaint (now accepted) while a second complaint, resolved
\* or closed, stayed as it was.
C11_Witness ==
  /\ Answered("distribute") /\ last.code = 200
  /\ \E i, j \in DOMAIN before :
       /\ before[i].complaint_status = "pending"
       /\ before[i].contractor_id = Null
       /\ complaints[i].complaint_status = "accepted"
       /\ complaints[i].contractor_id \in Contractors
       /\ (before[j].complaint_status = "closed" \/ before[j].status = "resolved")
       /\ complaints[j] = before[j]

---------------------------------------------------------------------------
\* C12: in every reachable state each complaint's contractor_id is null or
\* the id of an existing user whose role is contractor, after any sequence
\* of create, set-status, close-with-proof and distribute-randomly requests
\* by callers of any role.
C12_ContractorIdIsContractor ==
  \A i \in Ids :
    \/ complaints[i].contractor_id = Null
    \/ /\ complaints[i].contractor_id \in DOMAIN users
       /\ users[complaints[i].contractor_id].role = "contractor"

\* C12 witness: a contractor took an unassigned complaint by set-status and
\* is now its contractor_id.
C12_Witness ==
  /\ Answered("setStatus") /\ last.code = 200
  /\ before[last.id].contractor_id = Null
  /\ users[last.caller].role = "contractor"
  /\ complaints[last.id].contractor_id = last.caller

---------------------------------------------------------------------------
\* The set-status or close request of `last` is by a contractor on a
\* complaint assigned to a different contractor.
OnOthersComplaint ==
  /\ (Answered("setStatus") \/ Answered("close"))
  /\ OnRow
  /\ users[last.caller].role = "contractor"
  /\ before[last.id].contractor_id \notin {Null, last.caller}

\* The request of `last` passes the checks the handler makes before it
\* looks at the assignment: the status value is one of the enum; the close
\* request carries an image and the complaint is accepted or in_progress.
PassesEarlierChecks ==
  /\ Answered("setStatus") => last.status \in {"accepted", "in_progress", "closed"}
  /\ Answered("close") => /\ last.file # NoFile
                          /\ before[last.id].complaint_status \in {"accepted", "in_progress"}

\* C13 as stated: every set-status or close attempt of a contractor on a
\* complaint assigned to a different contractor is rejected as forbidden
\* (403) and changes nothing.
C13_OthersComplaintAlwaysForbidden ==
  OnOthersComplaint => (last.code = 403 /\ complaints = before)

\* C13 (amended): a caller with role contractor changes a complaint by
\* set-status or close-with-proof only if the complaint was unassigned or
\* assigned to that caller; an attempt on a complaint assigned to a
\* different contractor is always rejected and changes nothing, as
\* forbidden (403) when the request passes the checks made before the
\* assignment is looked at and as a bad request (400) otherwise; a caller
\* with role citizen is rejected as forbidden by both operations.
C13_ContractorOnlyOwnOrUnassigned ==
  /\ ((Answered("setStatus") \/ Answered("close"))
        /\ users[last.caller].role = "contractor" /\ complaints # before
      => /\ OnRow
         /\ before[last.id].contractor_id \in {Null, last.caller}
         /\ OthersKept(last.id))
  /\ (OnOthersComplaint
      => /\ complaints = before
         /\ last.code \in {400, 403}
         /\ (PassesEarlierChecks => last.code = 403))
  /\ ((Answered("setStatus") \/ Answered("close")) /\ users[last.caller].role = "citizen"
      => (last.code = 403 /\ complaints = before))

\* C13 witness: a contractor's close request, with an image, on an open
\* complaint of another contractor was answered 403.
C13_Witness ==
  /\ OnOthersComplaint /\ Answered("close")
  /\ last.file # NoFile
  /\ last.code = 403
  /\ last.error = "You can close only your assigned complaints"

---------------------------------------------------------------------------
\* C19: in every reachable state no two complaints have the same
\* ticket_number; a complaint keeps its ticket_number and no complaint is
\* ever removed, so a stored ticket number is never given to another
\* complaint; a creation whose generated ticket number equals a stored one
\* fails with an error, inserts no row and alters no complaint.
C19_TicketNumbersUnique ==
  /\ \A i, j \in Ids :
       complaints[i].ticket_number = complaints[j].ticket_number => i = j
  /\ \A i \in DOMAIN before :
       i \in Ids /\ complaints[i].ticket_number = before[i].ticket_number
  /\ (Answered("create")
        /\ (\E i \in DOMAIN before : before[i].ticket_number = last.ticket)
      => /\ last.code \in {400, 403, 422, 500}
         /\ complaints = before)

\* C19 witness: a citizen's valid complaint whose generated ticket number
\* is the one of the stored complaint was answered with the creation error.
C19_Witness ==
  /\ Answered("create")
  /\ Len(before) = 1
  /\ before[1].ticket_number = last.ticket
  /\ last.code = 500
  /\ last.error = "Failed to create complaint"
  /\ complaints = before

---------------------------------------------------------------------------
(* ReadSpec: the reading handlers on a table of up to MaxReadComplaints    *)
(* rows filed by the seeded citizen or by a citizen who registered, with   *)
(* or without coordinates, assigned at creation or unassigned.             *)

MaxReadComplaints == 2

ReadNext ==
  \/ \E email \in RegisterEmails : Len(users) < MaxUsers /\ Register(email)
  \/ \E u \in Callers, ticket \in Tickets, located \in BOOLEAN :
       /\ Len(complaints) < MaxReadComplaints
       /\ CreateComplaint(u, TRUE, FALSE, NoFile, ticket, "medium", located)
  \/ \E u \in Callers, ticket \in Tickets :
       Len(complaints) < MaxReadComplaints /\ SubmitGrievance(u, TRUE, ticket)
  \/ \E u \in Callers : ListGrievances(u)
  \/ \E u \in Callers : MyGrievances(u)
  \/ \E u \in Callers : MapMarkers(u)
  \/ \E u \in Callers, ticket \in 1 .. MaxReadComplaints : TrackByTicket(u, ticket)
  \/ \E u \in Callers, id \in 1 .. MaxReadComplaints : GetGrievance(u, id)
  \/ \E u \in Callers : ContractorGrievances(u)
  \/ \E u \in Callers, id \in 1 .. MaxReadComplaints : GetGrievanceLegacy(u, id)
  \/ Deliver

ReadSpec == Init /\ [][ReadNext]_vars

\* The requests that read complaints.
ReadOps == {"list", "my", "markers", "track", "get", "contractorList", "getLegacy"}

---------------------------------------------------------------------------
\* C14: every response to a caller with role citizen of a reading endpoint
\* (list, my-list, map markers, track by ticket, get by id) carries only
\* complaints whose citizen_id is the caller's id; a citizen's request for
\* one complaint that someone else filed is rejected and carries no
\* complaint.
C14_CitizenReadsOnlyOwn ==
  (last.op \in ReadOps /\ users[last.caller].role = "citizen")
  => /\ \A i \in last.rows : complaints[i].citizen_id = last.caller
     /\ (last.op \in {"track", "get", "getLegacy"}
           /\ last.id \in Ids /\ complaints[last.id].citizen_id # last.caller
         => /\ last.code = 403
            /\ last.rows = {})

\* C14 witness: a citizen's track request for the ticket of a complaint
\* filed by another citizen was rejected; the same citizen has filed a
\* complaint too.
C14_Witness ==
  /\ Answered("track") /\ last.code = 403
  /\ users[last.caller].role = "citizen"
  /\ complaints[last.id].citizen_id # last.caller
  /\ \E i \in Ids : complaints[i].citizen_id = last.caller

---------------------------------------------------------------------------
\* C15: no response of a reading endpoint (contractor list, complaint by
\* id, track by ticket, map markers, general list) to a caller with role
\* contractor carries a complaint whose contractor_id is set to a different
\* contractor.
C15_ContractorReadsNoOthers ==
  (last.op \in ReadOps /\ users[last.caller].role = "contractor")
  => \A i \in last.rows : complaints[i].contractor_id \in {Null, last.caller}

---------------------------------------------------------------------------
(* AuditSpec: every handler that updates a complaint, on one complaint of  *)
(* either origin, with the clock advancing between requests.               *)

AuditNext ==
  \/ \E u \in Callers, ticket \in Tickets :
       /\ Len(complaints) < MaxComplaints
       /\ CreateComplaint(u, TRUE, FALSE, NoFile, ticket, "medium", TRUE)
  \/ \E u \in Callers, ticket \in Tickets :
       Len(complaints) < MaxComplaints /\ SubmitGrievance(u, TRUE, ticket)
  \/ \E u \in Callers, id \in 1 .. MaxComplaints, v \in SetStatusEnum : SetStatus(u, id, v)
  \/ \E u \in Callers, id \in 1 .. MaxComplaints : CloseWithProof(u, id, FileB)
  \/ \E u \in Callers, pick \in [Ids -> Contractors] : DistributeRandom(u, pick)
  \/ \E u \in Callers, id \in 1 .. MaxComplaints : Feedback(u, id, 4, "good")
  \/ \E u \in Callers, id \in 1 .. MaxComplaints : Reopen(u, id)
  \/ \E u \in Callers, id \in 1 .. MaxComplaints, in \in {<<"resolved", FALSE>>, <<"", TRUE>>} :
       AuthorityUpdate(u, id, in[1], in[2])
  \/ now < MaxTime /\ Tick
  \/ Deliver

AuditSpec == Init /\ [][AuditNext]_vars

---------------------------------------------------------------------------
\* C20: every request that changes any field of a complaint (set-status,
\* close-with-proof, distribute-randomly, reopen, authority update, citizen
\* feedback) leaves that complaint's updated_at at the time of the request,
\* and no request changes a complaint's created_at.
C20_UpdatedAtBumpedCreatedAtKept ==
  \A i \in DOMAIN before :
    /\ complaints[i] # before[i] => complaints[i].updated_at = now
    /\ complaints[i].created_at = before[i].created_at

---------------------------------------------------------------------------
(* MigrateSpec: either server starts on a data file that is new or was     *)
(* left by an earlier version, with up to MaxOldRows grievances in it; the *)
(* TypeScript server, once started, serves set-status and                  *)
(* distribute-random; processes stop and start again.                      *)

MaxOldRows == 1
MaxCategories == 20

\* Values of the columns found in the rows of an earlier version.
OldStatuses ==
  ALLOWED_STATUS \cup {"under_review", "awaiting_confirmation", "closed", "escalated", "on_hold"}
OldPriorities == {"low", "medium", "high", "urgent", "critical"}
OldComplaintStatuses ==
  COMPLAINT_STATUS \cup {NullText, "", "rejected", "reopened", "on_hold"}

\* A row of an earlier version, filed by user 2.
OldRow(status, cstatus, priority, contractor) ==
  [NewRow(1, 2, cstatus, contractor, NoFile, priority, FALSE) EXCEPT !.status = status]

\* The users of a data file of the CommonJS server.
LegacyUsers == <<LegacyAdmin, [email |-> "resident@nagarseva.com", role |-> "citizen"]>>

\* A new data file.
FreshFile ==
  [schema |-> [users |-> "none", grievances |-> "none", categories |-> "none",
                shadow |-> {}, foreign_keys |-> FALSE],
   users |-> <<>>, categories |-> <<>>, complaints |-> <<>>]

\* Data files of the CommonJS server: the grievances table has no
\* complaint_status or contractor_id column, priority admits 'urgent';
\* grievance_categories.name is UNIQUE, or not when the file was created
\* before that constraint was added.
LegacyFiles ==
  {[schema |-> [users |-> "legacy", grievances |-> "legacy", categories |-> c,
                 shadow |-> {}, foreign_keys |-> FALSE],
    users |-> LegacyUsers, categories |-> LegacyCategoryNames, complaints |-> rows] :
     c \in {"unique", "plain"},
     rows \in UNION {[1 .. n -> {OldRow(s, NullText, p, Null) :
                                   s \in ALLOWED_STATUS,
                                   p \in {"low", "medium", "high", "urgent"}}] :
                     n \in 0 .. MaxOldRows}}

\* Data files whose grievances table has every column the rebuild copies
\* but not the current CHECK constraints.
WorkflowFiles ==
  {[schema |-> [users |-> "current", grievances |-> "workflow", categories |-> c,
                 shadow |-> {}, foreign_keys |-> FALSE],
    users |-> SeedUsers, categories |-> CategoryNames, complaints |-> rows] :
     c \in {"unique", "plain"},
     rows \in UNION {[1 .. n -> {OldRow(s, cs, p, k) :
                                   s \in OldStatuses, cs \in OldComplaintStatuses,
                                   p \in OldPriorities, k \in {Null, 3}}] :
                     n \in 0 .. MaxOldRows}}

MigrateInit ==
  /\ now = 1
  /\ \E file \in {FreshFile} \cup LegacyFiles \cup WorkflowFiles :
       /\ schema = file.schema
       /\ users = file.users
       /\ categories = file.categories
       /\ complaints = file.complaints
  /\ db = FALSE
  /\ last = Start
  /\ before = <<>>
  /\ everResolved = {i \in DOMAIN complaints : complaints[i].status = "resolved"}
  /\ sessions = NoSessions
  /\ user_sessions = NoSessions
  /\ legacySessions = NoSessions
  /\ issued = NoSessions
  /\ loggedOut = {}

MigrateNext ==
  \/ \E fault \in Faults : InitDb(fault)
  \/ LegacyInitDb
  \/ Len(categories) < MaxCategories /\ Restart
  \/ \E u \in Callers, id \in 1 .. MaxOldRows, v \in SetStatusEnum : SetStatus(u, id, v)
  \/ \E u \in Callers, pick \in [Ids -> Contractors] : DistributeRandom(u, pick)
  \/ Deliver

MigrateSpec == MigrateInit /\ [][MigrateNext]_vars

\* initDb has returned in this process: the server is listening.
Started ==
  /\ last.op \notin {"start", "runSchema", "getDb"}
  /\ ~(last.op = "initDb" /\ last.code # 200)

---------------------------------------------------------------------------
\* C16: in every state in which the server has started, the state right
\* after a startup migration of pre-existing rows included, every stored
\* complaint has status within {submitted, assigned, in_progress, resolved,
\* rejected, reopened} and complaint_status within {pending, accepted,
\* in_progress, closed}.
C16_StoredValuesWithinSets ==
  Started
  => \A i \in Ids :
       /\ complaints[i].status \in ALLOWED_STATUS
       /\ complaints[i].complaint_status \in COMPLAINT_STATUS

---------------------------------------------------------------------------
\* C17: initDb on the data file of the CommonJS server (grievances table
\* with priority 'urgent' allowed and without reporter_name, images_json,
\* complaint_status and contractor_id) completes, and afterwards every
\* grievance that was in the file is there with its ticket_number.
C17_LegacyStartupKeepsRows ==
  (Answered("initDb") /\ last.status = "legacy")
  => /\ last.code = 200
     /\ DOMAIN complaints = DOMAIN before
     /\ \A i \in DOMAIN before : complaints[i].ticket_number = before[i].ticket_number

---------------------------------------------------------------------------
\* C18: seeding never leaves two categories with the same name or two
\* users with the same e-mail, however often it has run on the data file.
C18_SeedNeverDuplicates ==
  /\ \A i, j \in DOMAIN categories : categories[i] = categories[j] => i = j
  /\ \A i, j \in DOMAIN users : users[i].email = users[j].email => i = j

---------------------------------------------------------------------------
(* Sessions: logins, logouts and authenticated requests at both servers,   *)
(* with registrations in between and restarts of the TypeScript server.    *)
(* The CommonJS server is followed through one run of its process.         *)

MaxTokens == 3
Tokens == 1 .. MaxTokens
LoginEmails == {"admin@nagarseva.gov", "citizen@nagarseva.com", "contractor1@nagarseva.gov"}

SessionNext ==
  \/ \E email \in LoginEmails, role \in Roles, valid, ok \in BOOLEAN, token \in Tokens :
       Login(email, role, valid, ok, token)
  \/ \E email \in LoginEmails, role \in Roles, ok \in BOOLEAN, token \in Tokens :
       LegacyLogin(email, role, ok, token)
  \/ \E token \in Tokens \cup {NoToken} : Auth(token)
  \/ \E token \in Tokens \cup {NoToken} : AuthMiddleware(token)
  \/ \E token \in Tokens \cup {NoToken} : Logout(token)
  \/ \E email \in RegisterEmails : Register(email)
  \/ Restart
  \/ \E fault \in Faults : InitDb(fault)
  \/ Deliver

SessionSpec == Init /\ [][SessionNext]_vars

\* The request of `last` was let through as the user the token was issued to.
PassedAs(session) ==
  /\ last.code = 200
  /\ last.caller = session.id
  /\ last.status = session.role

\* C21: a request carrying a token that a login of the same server returned
\* and for which logout has not been asked is let through as the user (id and
\* role) who logged in, whatever happened in between; a request with no
\* token, with a token never issued, or with a token that was logged out is
\* answered 401.
C21_TokenAuthenticatesUntilLogout ==
  /\ Answered("auth") =>
       IF /\ last.token \in DOMAIN issued
          /\ issued[last.token].by = "server.ts"
          /\ last.token \notin loggedOut
         THEN PassedAs(issued[last.token])
         ELSE last.code = 401
  /\ Answered("authMiddleware") =>
       IF /\ last.token \in DOMAIN issued
          /\ issued[last.token].by = "server.js"
          /\ last.token \notin loggedOut
         THEN PassedAs(issued[last.token])
         ELSE last.code = 401

---------------------------------------------------------------------------
\* initDb has answered after rebuilding the grievances table.
Rebuilt == Answered("initDb") /\ last.code = 200 /\ last.status = "workflow"

\* C22: after a rebuild of the grievances table every row that was in it has
\* status assigned if it was under_review, in_progress if
\* awaiting_confirmation, resolved if closed, reopened if escalated, its old
\* status if that was one of the six allowed values and submitted otherwise;
\* priority as before if low, medium or high, high if urgent and medium
\* otherwise; so both lie in the new allowed sets.
C22_RebuildMapsStatusAndPriority ==
  Rebuilt =>
    /\ DOMAIN complaints = DOMAIN before
    /\ \A i \in DOMAIN before :
         LET old == before[i]
             new == complaints[i]
         IN /\ old.status = "under_review" => new.status = "assigned"
            /\ old.status = "awaiting_confirmation" => new.status = "in_progress"
            /\ old.status = "closed" => new.status = "resolved"
            /\ old.status = "escalated" => new.status = "reopened"
            /\ old.status \in ALLOWED_STATUS => new.status = old.status
            /\ old.status \notin ALLOWED_STATUS \cup {"under_review", "awaiting_confirmation",
                                                     "closed", "escalated"}
                 => new.status = "submitted"
            /\ old.priority \in {"low", "medium", "high"} => new.priority = old.priority
            /\ old.priority = "urgent" => new.priority = "high"
            /\ old.priority \notin {"low", "medium", "high", "urgent"}
                 => new.priority = "medium"
            /\ new.status \in ALLOWED_STATUS
            /\ new.priority \in {"low", "medium", "high"}

\* A row with status escalated and priority urgent has been rebuilt.
C22_Witness ==
  /\ Rebuilt
  /\ \E i \in DOMAIN before :
       /\ before[i].status = "escalated"
       /\ before[i].priority = "urgent"
       /\ complaints[i].status = "reopened"
       /\ complaints[i].priority = "high"

---------------------------------------------------------------------------
\* initDb has just run its steps on a closed database.
InitDbRan == last.op = "start" /\ last'.op = "initDb"

---------------------------------------------------------------------------
(* The database manager as its callers see it: initDb and getDb, called    *)
(* again by startup code that caught an error of initDb.                   *)

ManagerNext ==
  \/ \E fault \in Faults : InitDb(fault)
  \/ InitDbAgain
  \/ GetDb
  \/ Len(categories) < MaxCategories /\ Restart
  \/ Deliver

ManagerSpec == MigrateInit /\ [][ManagerNext]_vars

\* Every migration and seed step of initDb has completed on the data file.
FullyInitialised ==
  /\ schema.users = "current"
  /\ schema.grievances = "current"
  /\ \A i \in DOMAIN SeedUsers : \E u \in DOMAIN users : users[u] = SeedUsers[i]
  /\ \A i \in DOMAIN CategoryNames :
       \E c \in DOMAIN categories : categories[c] = CategoryNames[i]

---------------------------------------------------------------------------
(* Verification of a closure: one accepted complaint of contractor 3 whose  *)
(* first photo is any small file, still in the uploads directory or not,   *)
(* or which has no photo; the heuristic is applied to it with any proof,    *)
(* and the complaint is closed with any proof.                              *)

MaxFileSize == 10

\* Files of every size up to MaxFileSize, two of different content for each
\* size above 0; files of different content have different SHA-256 hashes.
Files ==
  {[hash |-> 2 * sz + v, size |-> sz] : sz \in 1 .. MaxFileSize, v \in 1 .. 2}
    \cup {[hash |-> 1, size |-> 0]}

VerifyInit ==
  /\ now = 1
  /\ users = SeedUsers
  /\ categories = CategoryNames
  /\ schema = CurrentSchema
  /\ db = TRUE
  /\ \E photo \in Files \cup {NoFile}, on_disk \in BOOLEAN :
       /\ photo = NoFile => on_disk
       /\ complaints =
            <<[NewRow(1, 2, "accepted", 3, photo, "medium", TRUE) EXCEPT
                 !.images_on_disk = on_disk]>>
  /\ last = NoReq
  /\ before = <<>>
  /\ everResolved = {}
  /\ sessions = NoSessions
  /\ user_sessions = NoSessions
  /\ legacySessions = NoSessions
  /\ issued = NoSessions
  /\ loggedOut = {}

\* await verifyResolution(originalImagePath, proofImagePath) on the first
\* photo of complaint id and a proof that may be missing.
VerifyStep(id, proof) ==
  /\ last = NoReq
  /\ id \in Ids
  /\ last' = [Req("verify", 0, id) EXCEPT
                !.file = proof,
                !.verification = verifyResolution(FileAt(complaints[id]), proof),
                !.code = 200]
  /\ before' = complaints
  /\ UNCHANGED <<users, categories, complaints, schema, db, now, everResolved,
                 sessionVars, tokenHistory>>

VerifyNext ==
  \/ \E proof \in Files \cup {NoFile} : VerifyStep(1, proof)
  \/ \E u \in Callers, file \in Files \cup {NoFile} : CloseWithProof(u, 1, file)
  \/ Deliver

VerifySpec == VerifyInit /\ [][VerifyNext]_vars

\* C25: on two files that exist the heuristic answers resolved = false,
\* confidence = low when they have the same content, and otherwise resolved =
\* true with confidence high when (larger size - smaller size) / larger size
\* is at least 0.2 and medium when it is below; it answers resolved = false,
\* confidence = low when the proof does not exist.
C25_VerificationHeuristic ==
  Answered("verify") =>
    LET orig == FileAt(before[last.id])
        proof == last.file
        bigger == Max2(orig.size, proof.size)
        smaller == Min2(orig.size, proof.size)
    IN /\ proof = NoFile => last.verification = [resolved |-> FALSE, confidence |-> "low"]
       /\ (orig # NoFile /\ proof # NoFile) =>
            IF orig = proof
              THEN last.verification = [resolved |-> FALSE, confidence |-> "low"]
            ELSE IF 10 * (bigger - smaller) >= 2 * bigger
              THEN last.verification = [resolved |-> TRUE, confidence |-> "high"]
              ELSE last.verification = [resolved |-> TRUE, confidence |-> "medium"]

\* The heuristic has compared a file of 5 bytes with another of 4 bytes, a
\* size change of exactly 0.2, and answered high.
C25_Witness ==
  /\ Answered("verify")
  /\ FileAt(before[last.id]).size = 5
  /\ last.file.size = 4
  /\ last.verification = [resolved |-> TRUE, confidence |-> "high"]

\* C26: a closure with a proof of a complaint that has no before image (no
\* photo stored, or the stored first photo is no longer there) reports
\* resolved = true, confidence = medium.
C26_NoBeforeImageMeansMedium ==
  (Answered("close") /\ last.code = 200 /\ FileAt(before[last.id]) = NoFile)
  => last.verification = [resolved |-> TRUE, confidence |-> "medium"]

---------------------------------------------------------------------------
(* Priority detection.  A text is a sequence of characters.                *)

\* The words of the model, character by character.
FIRE == <<"f", "i", "r", "e">>
FLOOD == <<"f", "l", "o", "o", "d">>
ACCIDENT == <<"a", "c", "c", "i", "d", "e", "n", "t">>
ELECTRIC == <<"e", "l", "e", "c", "t", "r", "i", "c">>
WATER == <<"w", "a", "t", "e", "r">>
DRAINAGE == <<"d", "r", "a", "i", "n", "a", "g", "e">>
DRAIN == <<"d", "r", "a", "i", "n">>
GARBAGE == <<"g", "a", "r", "b", "a", "g", "e">>
GARDEN == <<"g", "a", "r", "d", "e", "n">>
CLEANING == <<"c", "l", "e", "a", "n", "i", "n", "g">>
MINOR == <<"m", "i", "n", "o", "r">>
CAPITAL_FIRE == <<"F", "i", "r", "e">>
POTHOLE == <<"p", "o", "t", "h", "o", "l", "e">>

\* String.prototype.toLowerCase on the characters of the model.
LowerChar(c) == IF c = "F" THEN "f" ELSE c
toLowerCase(text) == [i \in DOMAIN text |-> LowerChar(text[i])]

\* replace(/\s+/g, " "): every run of spaces becomes one space.
RECURSIVE CollapseSpaces(_)
CollapseSpaces(text) ==
  IF Len(text) < 2 THEN text
  ELSE IF text[1] = " " /\ text[2] = " " THEN CollapseSpaces(Tail(text))
  ELSE <<text[1]>> \o CollapseSpaces(Tail(text))

\* String.prototype.trim.
RECURSIVE trim(_)
trim(text) ==
  IF text = <<>> THEN text
  ELSE IF text[1] = " " THEN trim(Tail(text))
  ELSE IF text[Len(text)] = " " THEN trim(SubSeq(text, 1, Len(text) - 1))
  ELSE text

\* input.includes(needle)
includes(input, needle) ==
  \E i \in 1 .. Len(input) - Len(needle) + 1 :
    SubSeq(input, i, i + Len(needle) - 1) = needle

\* hasAny(input, needles)
hasAny(input, needles) == \E needle \in needles : includes(input, needle)

\* The keyword lists of detectPriority.
EmergencyKeywords == {FIRE, FLOOD, ACCIDENT}
UtilityKeywords == {ELECTRIC, WATER, DRAINAGE, DRAIN, GARBAGE}
CosmeticKeywords == {GARDEN, CLEANING, MINOR}

\* const text = `${safeDescription} ${safeLocation}`.toLowerCase()
\*   .replace(/\s+/g, " ").trim()
AnalysisText(description, location) ==
  trim(CollapseSpaces(toLowerCase(trim(description) \o <<" ">> \o trim(location))))

detectPriority_UtilityFirst(text) ==
  IF hasAny(text, UtilityKeywords) THEN "medium"
  ELSE IF hasAny(text, EmergencyKeywords) THEN "high"
  ELSE "low"

detectPriority(text) ==
  IF hasAny(text, EmergencyKeywords) THEN "high"
  ELSE IF hasAny(text, UtilityKeywords) THEN "medium"
  ELSE IF hasAny(text, CosmeticKeywords) THEN "low"
  ELSE "low"

\* analyzeComplaint(description, location).priority on its own.
AnalyzeStep(description, location) ==
  /\ last = NoReq
  /\ last' = [Req("analyze", 0, 0) EXCEPT
                !.text = AnalysisText(description, location),
                !.status = detectPriority(AnalysisText(description, location)),
                !.code = 200]
  /\ before' = complaints
  /\ UNCHANGED <<users, categories, complaints, schema, db, now, everResolved,
                 sessionVars, tokenHistory>>

\* Descriptions and locations: each keyword, "Fire" with a capital, a word
\* that is no keyword, and two keywords of different lists side by side.
Phrases ==
  EmergencyKeywords \cup UtilityKeywords \cup CosmeticKeywords
    \cup {CAPITAL_FIRE, POTHOLE, WATER \o <<" ">> \o FIRE, GARDEN \o <<" ", " ">> \o WATER}

MaxPriorityComplaints == 1

PriorityNext ==
  \/ \E description, location \in Phrases : AnalyzeStep(description, location)
  \/ \E u \in Callers, valid, spam \in BOOLEAN, ticket \in Tickets,
        description, location \in Phrases :
       /\ Len(complaints) < MaxPriorityComplaints
       /\ CreateComplaint(u, valid, spam, NoFile, ticket,
                          detectPriority(AnalysisText(description, location)), TRUE)
  \/ Deliver

PrioritySpec == Init /\ [][PriorityNext]_vars

\* Every stored complaint has priority low, medium or high.
StoredPriorityAllowed ==
  \A i \in Ids : complaints[i].priority \in {"low", "medium", "high"}

\* C27 as stated: the priority of a text is high if it contains fire, flood
\* or accident, else medium if it contains electric, water, drainage or
\* garbage, else low; and every stored priority is low, medium or high.
C27_PriorityPrecedenceAsStated ==
  /\ Answered("analyze") =>
       last.status =
         IF hasAny(last.text, {FIRE, FLOOD, ACCIDENT}) THEN "high"
         ELSE IF hasAny(last.text, {ELECTRIC, WATER, DRAINAGE, GARBAGE}) THEN "medium"
         ELSE "low"
  /\ StoredPriorityAllowed

\* C27 (amended): the priority of a text is high if it contains fire, flood
\* or accident, whatever else it contains, else medium if it contains
\* electric, water, drain (so drainage too) or garbage, else low; and every
\* stored priority is low, medium or high.
C27_PriorityPrecedence ==
  /\ Answered("analyze") =>
       last.status =
         IF hasAny(last.text, {FIRE, FLOOD, ACCIDENT}) THEN "high"
         ELSE IF hasAny(last.text, {ELECTRIC, WATER, DRAIN, GARBAGE}) THEN "medium"
         ELSE "low"
  /\ StoredPriorityAllowed

\* A text with a utility keyword before an emergency keyword was rated high.
C27_Witness ==
  /\ Answered("analyze")
  /\ includes(last.text, WATER \o <<" ">> \o FIRE)
  /\ last.status = "high"

---------------------------------------------------------------------------
\* C28: complaints created by POST /api/complaints keep, through set-status,
\* close-with-proof and distribute-random, a pair (complaint_status, status)
\* that is one of (accepted, submitted), (accepted, assigned),
\* (in_progress, in_progress), (closed, resolved).
C28_StatusPairs ==
  \A i \in Ids :
    <<complaints[i].complaint_status, complaints[i].status>> \in
      {<<"accepted", "submitted">>, <<"accepted", "assigned">>,
       <<"in_progress", "in_progress">>, <<"closed", "resolved">>}

\* Distribute-random has run over a complaint that was in progress.
C28_Witness ==
  /\ Answered("distribute") /\ last.code = 200
  /\ \E i \in DOMAIN before :
       /\ before[i].complaint_status = "in_progress"
       /\ complaints[i].complaint_status = "in_progress"
       /\ complaints[i].status = "in_progress"

---------------------------------------------------------------------------
\* C29: with the seeded contractors, every complaint created by POST
\* /api/complaints whose complaint_status is accepted or in_progress has a
\* contractor, after any creations, set-status, close-with-proof and
\* distribute-random requests, and is in the list GET
\* /api/contractor/grievances gives to exactly one contractor.
C29_OpenComplaintHasContractor ==
  \A i \in Ids :
    complaints[i].complaint_status \in {"accepted", "in_progress"}
      => /\ complaints[i].contractor_id # Null
         /\ Cardinality({c \in Contractors : complaints[i].contractor_id = c}) = 1

\* The authority has moved a complaint to in_progress and the complaint has
\* kept the contractor it had.
C29_Witness ==
  /\ Answered("setStatus") /\ last.code = 200 /\ OnRow
  /\ users[last.caller].role = "authority"
  /\ complaints[last.id].complaint_status = "in_progress"
  /\ complaints[last.id].contractor_id = before[last.id].contractor_id
  /\ complaints[last.id].contractor_id \in Contractors

---------------------------------------------------------------------------
(* Creations only *)

MaxCreateComplaints == 5

CreateNext ==
  \/ \E u \in Callers, valid \in BOOLEAN, photo \in Photos, ticket \in Tickets :
       /\ Len(complaints) < MaxCreateComplaints
       /\ CreateComplaint(u, valid, FALSE, photo, ticket, "medium", TRUE)
  \/ Deliver

CreateSpec == Init /\ [][CreateNext]_vars

\* C30: from no complaints and with the contractors fixed, after successful
\* creations only, the numbers of open (accepted or in_progress) complaints
\* of any two contractors differ by at most one.
C30_LoadsBalanced ==
  \A c1, c2 \in Contractors :
    OpenCount(complaints, c1) - OpenCount(complaints, c2) <= 1

\* Four complaints have been created: one contractor has two, the others one.
C30_Witness ==
  /\ Len(complaints) = 4
  /\ OpenCount(complaints, 3) = 2
  /\ OpenCount(complaints, 4) = 1
  /\ OpenCount(complaints, 5) = 1

====
